---- MODULE Spec2Model ----
(***************************************************************************)
(* Model of the transcription client of TranscribeAI:                      *)
(*   src/src/ai/flows/transcribe-live-speech.ts (transcribeLiveSpeechFlow) *)
(* One call of the flow is a state machine whose suspension points are the *)
(* awaits of the source: the fetch, the body read and the backoff timer.   *)
(* Texts (error messages, server messages) are sequences of word tokens;   *)
(* transcripts and data URIs are sequences of characters/lexemes.          *)
(***************************************************************************)
EXTENDS Integers, Sequences, FiniteSets, TLC

VARIABLES pc, input, env, request, attempt, calls, waits, lastError,
          status, resp, timer, overdue, outcome, applied, frames, events,
          isRecording, isProcessing, shownTranscription, mediaRecorderRef,
          audioChunksRef, pendingStarts, recorders

vars == <<pc, input, env, request, attempt, calls, waits, lastError,
          status, resp, timer, overdue, outcome, applied, frames, events,
          isRecording, isProcessing, shownTranscription, mediaRecorderRef,
          audioChunksRef, pendingStarts, recorders>>

\* ------------------------------------------------------------ constants
MAX_ATTEMPTS_Mut == 3 + 1

MAX_ATTEMPTS == 3
BASE_BACKOFF_MS == 500

\* ------------------------------------------------------------ bounds
MaxUriLen == 4
MaxSegs == 2
MaxAggSegs == 3
MaxMimeLen == 3
MaxPcmLen == 4
MaxRecorders == 3
MaxPending == 2

\* ------------------------------------------------------------ texts
RECURSIVE Pow2(_)
Pow2(n) == IF n <= 0 THEN 1 ELSE 2 * Pow2(n - 1)

\* String.prototype.toLowerCase on one word token
toLowerCase(tok) ==
  CASE tok = "Payment"  -> "payment"
    [] tok = "Required" -> "required"
    [] tok = "STATUS"   -> "status"
    [] tok = "WebM"     -> "webm"
    [] tok = "WAV"      -> "wav"
    [] tok = "Mp3"      -> "mp3"
    [] tok = "FLAC"     -> "flac"
    [] tok = "Amr"      -> "amr"
    [] tok = "OGG"      -> "ogg"
    [] OTHER            -> tok

\* msg.toLowerCase().includes(pat): pat occurs as a contiguous run of words
includes(text, pat) ==
  \E i \in 1..(Len(text) - Len(pat) + 1) :
     \A j \in 1..Len(pat) : toLowerCase(text[i + j - 1]) = pat[j]

\* the auth/payment signature test of the catch block
AuthSignature(message) ==
  \/ includes(message, <<"status", "401">>)
  \/ includes(message, <<"status", "403">>)
  \/ includes(message, <<"payment", "required">>)

\* an optional string: <<>> is undefined, <<s>> is the string s
Undefined == <<>>
\* !!opt
Truthy(opt) == opt # Undefined /\ opt[1] # ""
\* a ?? b
Coalesce(a, b) == IF a # Undefined THEN a ELSE b

\* ------------------------------------------------------------ data URI
\* "webm" stands for a run of alphanumerics (legal in the MIME type and in
\* the payload), "-" is legal in the MIME type only
UriLexemes == {"data:", ";base64,", "webm", "-"}
MimeChars == {"webm", "-"}
Base64Chars == {"webm"}

validateDataUriMut(uri) ==
  [ok |-> TRUE, mimeType |-> <<>>, base64 |-> <<>>]

\* /^data:([a-zA-Z0-9\/\-\+\.]+);base64,([A-Za-z0-9+/=]+)$/.exec(uri)
validateDataUri(uri) ==
  LET Sep(i) == /\ uri[i] = ";base64,"
                /\ \A j \in 2..(i - 1) : uri[j] \in MimeChars
                /\ \A j \in (i + 1)..Len(uri) : uri[j] \in Base64Chars
      seps == IF Len(uri) >= 4 /\ uri[1] = "data:"
              THEN {i \in 3..(Len(uri) - 1) : Sep(i)} ELSE {}
  IN IF seps = {}
     THEN [ok |-> FALSE, mimeType |-> <<>>, base64 |-> <<>>]
     ELSE LET i == CHOOSE k \in seps : TRUE
          IN [ok |-> TRUE, mimeType |-> SubSeq(uri, 2, i - 1),
              base64 |-> SubSeq(uri, i + 1, Len(uri))]

\* first matching entry of the ordered codec table, "null" when none matches
mimeTypeToEncodingMut(mimeType) ==
  LET has(w) == \E i \in 1..Len(mimeType) : toLowerCase(mimeType[i]) = w
  IN IF has("wav") THEN "WAV"
     ELSE IF has("webm") THEN "WEBM_OPUS"
     ELSE IF has("mp3") THEN "MP3"
     ELSE IF has("flac") THEN "FLAC"
     ELSE IF has("amr") THEN "AMR"
     ELSE IF has("ogg") THEN "OGG_OPUS"
     ELSE "null"

\* the media type is a sequence of chunks, each a table key in some letter
\* case or a filler; lowerMime.includes(w) holds when a chunk lowercases to w
mimeTypeToEncoding(mimeType) ==
  LET lowerMime == [i \in 1..Len(mimeType) |-> toLowerCase(mimeType[i])]
      has(w) == \E i \in 1..Len(lowerMime) : lowerMime[i] = w
  IN IF has("webm") THEN "WEBM_OPUS"
     ELSE IF has("wav") THEN "WAV"
     ELSE IF has("mp3") THEN "MP3"
     ELSE IF has("flac") THEN "FLAC"
     ELSE IF has("amr") THEN "AMR"
     ELSE IF has("ogg") THEN "OGG_OPUS"
     ELSE "null"

\* the config object of the request body (languageCode left out): the
\* encoding field is assigned only when the inferred encoding is truthy
config(encoding) ==
  IF encoding # "null"
  THEN [enableAutomaticPunctuation |-> TRUE, model |-> "default",
        encoding |-> encoding]
  ELSE [enableAutomaticPunctuation |-> TRUE, model |-> "default"]

\* ------------------------------------------------------------ responses
Statuses == {200, 400, 401, 402, 403, 500}
okMut(st) == 200 < st /\ st <= 299

\* Response.ok
ok(st) == 200 <= st /\ st <= 299

\* texts the service controls (error.message, a non-JSON body)
ServerMessages == {<<"quota">>, <<"Payment", "Required">>}
NonJsonTexts == {<<"<html>">>, <<"STATUS", "401">>}
\* messages of a rejected fetch / body read; the second is the AbortError
NetworkMessages == {<<"fetch", "failed">>, <<"upstream", "payment", "required">>}
AbortMessage == <<"This", "operation", "was", "aborted">>

\* the first alternative's transcript, a string of characters
Transcripts == {<<" ">>, <<"a">>}
\* one element of json.results:
\*   null     - the element is null (reading r.alternatives throws)
\*   noalt    - alternatives is missing, not an array or empty
\*   nonstring- alternatives[0].transcript is not a string
\*   str      - alternatives[0].transcript is the string t
Segments ==
  {[k |-> "null", t |-> <<>>], [k |-> "noalt", t |-> <<>>],
   [k |-> "nonstring", t |-> <<>>]}
  \cup {[k |-> "str", t |-> t] : t \in Transcripts}

RECURSIVE SeqsUpTo(_, _)
SeqsUpTo(S, n) ==
  IF n = 0 THEN {<<>>}
  ELSE LET shorter == SeqsUpTo(S, n - 1)
       IN shorter \cup {Append(q, x) : q \in {r \in shorter : Len(r) = n - 1}, x \in S}

\* the body text of a response:
\*   nonjson - JSON.parse throws;  empty - "" (json is undefined)
\*   error   - {error: {message}};  results - {results: [...]};  object - {}
Bodies ==
  {[k |-> "nonjson", text |-> t, results |-> <<>>] : t \in NonJsonTexts}
  \cup {[k |-> "empty", text |-> <<>>, results |-> <<>>],
        [k |-> "object", text |-> <<>>, results |-> <<>>]}
  \cup {[k |-> "error", text |-> m, results |-> <<>>] : m \in ServerMessages}
  \cup {[k |-> "results", text |-> <<>>, results |-> r] : r \in SeqsUpTo(Segments, MaxSegs)}

\* resp records what the network call of the current attempt delivered: the
\* status with the body, or the status (0 when fetch itself rejected) with
\* the message of the rejection
NoBody == [k |-> "none", text |-> <<>>, results |-> <<>>]
NoResp == [status |-> 0, body |-> NoBody]
Rejected(m) == [k |-> "rejected", text |-> m, results |-> <<>>]

\* JSON.stringify(json), as words. The text of a results array is one word:
\* the code only ever searches these texts for the auth signatures, and no
\* transcript of the model holds one.
Stringify(body) ==
  CASE body.k = "empty"   -> <<"undefined">>
    [] body.k = "object"  -> <<"{}">>
    [] body.k = "error"   -> <<"{error:{message:">> \o body.text \o <<"}}">>
    [] OTHER -> IF body.results = <<>> THEN <<"{results:[]}">>
                ELSE <<"{results:[...]}">>

\* ------------------------------------------------------------ aggregation
IsSpace(c) == c = " "

RECURSIVE trimStart(_)
trimStart(str) ==
  IF str # <<>> /\ IsSpace(Head(str)) THEN trimStart(Tail(str)) ELSE str

RECURSIVE trimEnd(_)
trimEnd(str) ==
  IF str # <<>> /\ IsSpace(str[Len(str)])
  THEN trimEnd(SubSeq(str, 1, Len(str) - 1)) ELSE str

\* String.prototype.trim
trim(str) == trimEnd(trimStart(str))

\* Array.prototype.join(' ')
RECURSIVE join(_)
join(strs) ==
  IF strs = <<>> THEN <<>>
  ELSE IF Len(strs) = 1 THEN strs[1]
  ELSE strs[1] \o <<" ">> \o join(Tail(strs))

RECURSIVE pushedMut(_)
pushedMut(rs) ==
  IF rs = <<>> THEN <<>>
  ELSE IF Head(rs).k = "str" THEN pushedMut(Tail(rs)) \o <<Head(rs).t>>
  ELSE pushedMut(Tail(rs))

\* the transcripts pushed by the loop over json.results
RECURSIVE pushed(_)
pushed(rs) ==
  IF rs = <<>> THEN <<>>
  ELSE IF Head(rs).k = "str" THEN <<Head(rs).t>> \o pushed(Tail(rs))
  ELSE pushed(Tail(rs))

throwsTypeError(rs) == \E i \in 1..Len(rs) : rs[i].k = "null"

transcriptionOf(rs) == trim(join(pushed(rs)))

\* ------------------------------------------------------------ errors
NullError == [isNull |-> TRUE, message |-> <<>>]
Err(message) == [isNull |-> FALSE, message |-> message]

StatusWord(st) == ToString(st)

nonJsonError(text) ==
  Err(<<"Unexpected", "non-JSON", "response", "from", "Speech", "API:">> \o text)

serverMessage(body) ==
  IF body.k = "error" THEN body.text ELSE Stringify(body)

statusError(st, body) ==
  Err(<<"Speech", "API", "error", "(", "status", StatusWord(st), "):">>
      \o serverMessage(body))

noResultsError(body) ==
  Err(<<"Speech", "API", "returned", "no", "transcription", "results:">>
      \o Stringify(body))

emptyTranscriptError(body) ==
  Err(<<"Speech", "API", "returned", "empty", "transcript", "text:">>
      \o Stringify(body))

typeError ==
  Err(<<"Cannot", "read", "properties", "of", "null">>)

NoOutcome ==
  [kind |-> "none", message |-> <<>>, lastError |-> NullError,
   transcription |-> <<>>]

malformedInput ==
  [kind |-> "MalformedInput", message |-> <<"Invalid", "audioDataUri.">>,
   lastError |-> NullError, transcription |-> <<>>]

missingCredential ==
  [kind |-> "MissingCredential",
   message |-> <<"No", "Google", "API", "key", "provided.">>,
   lastError |-> NullError, transcription |-> <<>>]

success(transcription) ==
  [kind |-> "Success", message |-> <<>>, lastError |-> NullError,
   transcription |-> transcription]

nonRetriable(last) ==
  [kind |-> "NonRetriable",
   message |-> <<"Non-retriable", "error", "from", "Google", "Speech", "API:">>
               \o last.message \o <<"Check", "API", "key", "validity">>,
   lastError |-> NullError, transcription |-> <<>>]

exhaustedMut(last) ==
  [kind |-> "Exhausted",
   message |-> <<"Transcription", "failed", "after", StatusWord(MAX_ATTEMPTS),
                 "attempts.">>,
   lastError |-> NullError, transcription |-> <<>>]

\* finalErr, with finalErr.lastError = lastError
exhausted(last) ==
  [kind |-> "Exhausted",
   message |-> <<"Transcription", "failed", "after", StatusWord(MAX_ATTEMPTS),
                 "attempts.", "Last", "error:">> \o last.message,
   lastError |-> last, transcription |-> <<>>]

fallThrough(last) ==
  [kind |-> "FallThrough",
   message |-> <<"Transcription", "failed.", "Last", "error:">>
               \o (IF last.isNull THEN <<"unknown">> ELSE last.message),
   lastError |-> NullError, transcription |-> <<>>]

\* ------------------------------------------------------------ one attempt
isAuthStatus(st) == st = 401 \/ st = 403 \/ st = 402

lastAttemptMut(att) == FALSE
lastAttemptLate(att) == att = MAX_ATTEMPTS + 1

\* attempt === MAX_ATTEMPTS
lastAttempt(att) == att = MAX_ATTEMPTS

\* the for loop's condition
loopCondition(att) == att <= MAX_ATTEMPTS

\* BASE_BACKOFF_MS * Math.pow(2, attempt - 1)
backoff(att) == BASE_BACKOFF_MS * Pow2(att - 1)

\* !transcription
falsyMut(str) == FALSE

falsy(str) == str = <<>>

TR(k, err, last, t) == [k |-> k, err |-> err, last |-> last, transcription |-> t]

\* the try block from JSON.parse on: what it does with response r on attempt
\* att when lastError is last: return, throw err, or continue; last is the
\* value of lastError it leaves
tryBody(r, att, last) ==
  LET body == r.body
      st == r.status
  IN IF body.k = "nonjson"
     THEN TR("throw", nonJsonError(body.text), last, <<>>)
     ELSE IF ~ok(st)
     THEN LET err == statusError(st, body)
          IN IF isAuthStatus(st) THEN TR("throw", err, last, <<>>)
             ELSE IF lastAttempt(att) THEN TR("throw", err, err, <<>>)
             ELSE TR("continue", err, err, <<>>)
     ELSE IF body.k # "results" \/ body.results = <<>>
     THEN LET err == noResultsError(body)
          IN IF lastAttempt(att) THEN TR("throw", err, err, <<>>)
             ELSE TR("continue", err, err, <<>>)
     ELSE IF throwsTypeError(body.results)
     THEN TR("throw", typeError, last, <<>>)
     ELSE LET t == transcriptionOf(body.results)
              err == emptyTranscriptError(body)
          IN IF falsy(t)
             THEN IF lastAttempt(att) THEN TR("throw", err, err, <<>>)
                  ELSE TR("continue", err, err, <<>>)
             ELSE TR("return", NullError, last, t)

LS(k, o, last) == [k |-> k, outcome |-> o, last |-> last]

\* the catch block: err was thrown on attempt att
catchBlock(err, att) ==
  IF AuthSignature(err.message) THEN LS("done", nonRetriable(err), err)
  ELSE IF lastAttempt(att) THEN LS("done", exhausted(err), err)
  ELSE LS("continue", NoOutcome, err)

\* one iteration of the loop from the response on
iteration(r, att, last) ==
  LET tr == tryBody(r, att, last)
  IN CASE tr.k = "return"   -> LS("done", success(tr.transcription), tr.last)
       [] tr.k = "continue" -> LS("continue", NoOutcome, tr.last)
       [] OTHER             -> catchBlock(tr.err, att)

\* ------------------------------------------------------------ state
NoInput == [audioDataUri |-> <<>>, apiKey |-> Undefined]
NoRequest == [key |-> Undefined, config |-> <<>>, content |-> <<>>]

Uris == SeqsUpTo(UriLexemes, MaxUriLen)
Keys == {Undefined, <<"">>, <<"key">>}
EnvKeys == {Undefined, <<"">>, <<"envkey">>}

\* the transcribe calls in flight side by side: `frames` holds the locals of
\* each invocation and `events` what was delivered to it; the single call
\* modelled by the flow variables writes neither
Invocations == {1, 2}
NoFrame ==
  [pc |-> "idle", input |-> NoInput, request |-> NoRequest, attempt |-> 0,
   calls |-> 0, waits |-> <<>>, lastError |-> NullError, status |-> 0,
   timer |-> "none", outcome |-> NoOutcome]
NoFrames == [i \in Invocations |-> NoFrame]
NoEvents == [i \in Invocations |-> <<>>]

\* the voice-to-text card (src/src/components/voice-to-text.tsx): its React
\* state, its two refs, the handleStartRecording invocations suspended in
\* getUserMedia, and the MediaRecorder objects created so far
\* (shownTranscription is the state `transcription` of the card)
cardVars == <<isRecording, isProcessing, shownTranscription, mediaRecorderRef,
              audioChunksRef, pendingStarts, recorders>>
RecorderIds == 1..MaxRecorders
\* a recorder not yet constructed
NoRecorder ==
  [phase |-> "none", tracks |-> "none", produced |-> <<>>, blob |-> <<>>]
\* the card as first rendered
InitCard ==
  /\ isRecording = FALSE
  /\ isProcessing = FALSE
  /\ shownTranscription = <<>>
  /\ mediaRecorderRef = 0
  /\ audioChunksRef = <<>>
  /\ pendingStarts = 0
  /\ recorders = [id \in RecorderIds |-> NoRecorder]

others == <<frames, events, cardVars>>

\* `applied` records one application of a helper function taken on its own
\* (its name, argument and value); the flow itself never writes it
NoApplication == [fn |-> "none", arg |-> <<>>, val |-> <<>>]

Init ==
  /\ pc = "idle"
  /\ input = NoInput
  /\ env \in EnvKeys
  /\ request = NoRequest
  /\ attempt = 0
  /\ calls = 0
  /\ waits = <<>>
  /\ lastError = NullError
  /\ status = 0
  /\ resp = NoResp
  /\ timer = "none"
  /\ overdue = FALSE
  /\ outcome = NoOutcome
  /\ applied = NoApplication
  /\ frames = NoFrames
  /\ events = NoEvents
  /\ InitCard

\* the end of an iteration: return/throw ends the call, continue runs
\* attempt++ and the loop test, then starts the backoff wait of the next
\* attempt
Settle(step) ==
  /\ lastError' = step.last
  /\ IF step.k = "done"
     THEN /\ pc' = "done"
          /\ outcome' = step.outcome
          /\ UNCHANGED <<attempt, waits>>
     ELSE /\ attempt' = attempt + 1
          /\ IF loopCondition(attempt + 1)
             THEN /\ pc' = "backoff"
                  /\ waits' = Append(waits, backoff(attempt + 1))
                  /\ UNCHANGED outcome
             ELSE /\ pc' = "done"
                  /\ outcome' = fallThrough(step.last)
                  /\ UNCHANGED waits

CallMut(uri, key) ==
  /\ pc = "idle"
  /\ input' = [audioDataUri |-> uri, apiKey |-> key]
  /\ LET v == validateDataUri(uri)
         apiKey == Coalesce(key, env)
     IN IF ~Truthy(apiKey)
        THEN /\ pc' = "done"
             /\ outcome' = missingCredential
             /\ UNCHANGED <<request, attempt, calls, timer>>
        ELSE IF ~v.ok
        THEN /\ pc' = "done"
             /\ outcome' = malformedInput
             /\ UNCHANGED <<request, attempt, calls, timer>>
        ELSE /\ request' = [key |-> apiKey,
                            config |-> config(mimeTypeToEncoding(v.mimeType)),
                            content |-> v.base64]
             /\ attempt' = 1
             /\ calls' = 1
             /\ timer' = "armed"
             /\ pc' = "awaitFetch"
             /\ UNCHANGED outcome
  /\ UNCHANGED <<env, waits, lastError, status, resp, overdue, applied, others>>

\* transcribeLiveSpeechFlow up to its first await
Call(uri, key) ==
  /\ pc = "idle"
  /\ input' = [audioDataUri |-> uri, apiKey |-> key]
  /\ LET v == validateDataUri(uri)
         apiKey == Coalesce(key, env)
     IN IF ~v.ok
        THEN /\ pc' = "done"
             /\ outcome' = malformedInput
             /\ UNCHANGED <<request, attempt, calls, timer>>
        ELSE IF ~Truthy(apiKey)
        THEN /\ pc' = "done"
             /\ outcome' = missingCredential
             /\ UNCHANGED <<request, attempt, calls, timer>>
        ELSE /\ request' = [key |-> apiKey,
                            config |-> config(mimeTypeToEncoding(v.mimeType)),
                            content |-> v.base64]
             /\ attempt' = 1
             /\ calls' = 1
             /\ timer' = "armed"
             /\ pc' = "awaitFetch"
             /\ UNCHANGED outcome
  /\ UNCHANGED <<env, waits, lastError, status, resp, overdue, applied, others>>

\* the backoff timer fires: fetchWithTimeout arms the abort timer and fetches
BackoffElapsed ==
  /\ pc = "backoff"
  /\ calls' = calls + 1
  /\ timer' = "armed"
  /\ resp' = NoResp
  /\ status' = 0
  /\ pc' = "awaitFetch"
  /\ UNCHANGED <<input, env, request, attempt, waits, lastError, overdue,
                 outcome, applied, others>>

\* fetch resolves with the response headers; the abort timer is cleared
FetchResolve(st) ==
  /\ pc = "awaitFetch"
  /\ status' = st
  /\ timer' = "cleared"
  /\ pc' = "awaitText"
  /\ UNCHANGED <<input, env, request, attempt, calls, waits, lastError, resp,
                 overdue, outcome,
                 applied, others>>

\* fetch rejects with a network error
FetchReject(m) ==
  /\ pc = "awaitFetch"
  /\ resp' = [status |-> 0, body |-> Rejected(m)]
  /\ Settle(catchBlock(Err(m), attempt))
  /\ UNCHANGED <<input, env, request, calls, status, timer, overdue,
                 applied, others>>

\* the 60 s timer fires first: the controller aborts and fetch rejects
FetchTimeout ==
  /\ pc = "awaitFetch"
  /\ timer = "armed"
  /\ timer' = "fired"
  /\ resp' = [status |-> 0, body |-> Rejected(AbortMessage)]
  /\ Settle(catchBlock(Err(AbortMessage), attempt))
  /\ UNCHANGED <<input, env, request, calls, status, overdue,
                 applied, others>>

\* 60 s have passed since the fetch began and the body is still being read:
\* the abort timer was cleared when fetch resolved, so nothing happens and
\* the call stays suspended in resp.text()
BodyOverdue ==
  /\ pc = "awaitText"
  /\ timer = "cleared"
  /\ ~overdue
  /\ overdue' = TRUE
  /\ UNCHANGED <<pc, input, env, request, attempt, calls, waits, lastError,
                 status, resp, timer, outcome,
                 applied, others>>

\* resp.text() resolves: the rest of the iteration runs
TextResolve(b) ==
  /\ pc = "awaitText"
  /\ overdue' = FALSE
  /\ resp' = [status |-> status, body |-> b]
  /\ Settle(iteration(resp', attempt, lastError))
  /\ UNCHANGED <<input, env, request, calls, status, timer,
                 applied, others>>

\* resp.text() rejects
TextReject(m) ==
  /\ pc = "awaitText"
  /\ overdue' = FALSE
  /\ resp' = [status |-> status, body |-> Rejected(m)]
  /\ Settle(catchBlock(Err(m), attempt))
  /\ UNCHANGED <<input, env, request, calls, status, timer,
                 applied, others>>

Next ==
  \/ \E uri \in Uris, key \in Keys : Call(uri, key)
  \/ BackoffElapsed
  \/ \E st \in Statuses : FetchResolve(st)
  \/ \E m \in NetworkMessages : FetchReject(m)
  \/ FetchTimeout
  \/ BodyOverdue
  \/ \E b \in Bodies : TextResolve(b)
  \/ \E m \in NetworkMessages : TextReject(m)

Spec == Init /\ [][Next]_vars

\* the environment C14 assumes: the backoff timer fires, every fetch
\* resolves, rejects or is aborted by its timer, and every body read
\* resolves or rejects
NetworkAnswers ==
  \/ \E st \in Statuses : FetchResolve(st)
  \/ \E m \in NetworkMessages : FetchReject(m)
  \/ FetchTimeout
BodyArrives ==
  \/ \E b \in Bodies : TextResolve(b)
  \/ \E m \in NetworkMessages : TextReject(m)
SpecLive ==
  /\ Init /\ [][Next]_vars
  /\ WF_vars(BackoffElapsed)
  /\ WF_vars(NetworkAnswers)
  /\ WF_vars(BodyArrives)

\* ------------------------------------------------------------ helpers alone
\* the variables of the flow, which an application of a helper leaves alone
flowVars == <<pc, input, env, request, attempt, calls, waits, lastError,
              status, resp, timer, overdue, outcome>>

InitAlone == Init /\ env = Undefined

\* result arrays for the aggregation taken alone: transcripts over two
\* letters and the space, so that order and trimming show
AggTranscripts ==
  {<<>>, <<" ">>, <<"a">>, <<"b">>, <<" ", "a">>, <<"b", " ">>}
AggSegments ==
  {[k |-> "null", t |-> <<>>], [k |-> "noalt", t |-> <<>>],
   [k |-> "nonstring", t |-> <<>>]}
  \cup {[k |-> "str", t |-> t] : t \in AggTranscripts}

\* a 200 response whose JSON body has the results rs
resultsResponse(rs) ==
  [status |-> 200, body |-> [k |-> "results", text |-> <<>>, results |-> rs]]

\* one iteration of the loop on a 200 response with the results rs
Aggregate(rs) ==
  /\ applied = NoApplication
  /\ applied' = [fn |-> "aggregate", arg |-> rs,
                 val |-> iteration(resultsResponse(rs), 1, NullError)]
  /\ UNCHANGED <<flowVars, others>>

NextAgg == \E rs \in SeqsUpTo(AggSegments, MaxAggSegs) : Aggregate(rs)

SpecAgg == InitAlone /\ [][NextAgg]_vars

\* media types for the codec inference taken alone: the table keys in
\* lower and mixed case, and two fillers
MimeChunks ==
  {"webm", "WebM", "wav", "WAV", "mp3", "Mp3", "flac", "FLAC", "amr", "Amr",
   "ogg", "OGG", "audio/", "x-"}

\* the inference and the request construction on the media type m
Infer(m) ==
  /\ applied = NoApplication
  /\ LET encoding == mimeTypeToEncoding(m)
     IN applied' = [fn |-> "mimeTypeToEncoding", arg |-> m,
                    val |-> [encoding |-> encoding,
                             config |-> config(encoding)]]
  /\ UNCHANGED <<flowVars, others>>

NextCodec == \E m \in SeqsUpTo(MimeChunks, MaxMimeLen) : Infer(m)

SpecCodec == InitAlone /\ [][NextCodec]_vars

\* ------------------------------------------------------------ toWav
\* src/src/ai/flows/generate-spoken-audio.ts; buffers are sequences of bytes
\* (0..255), the base64 text is a sequence of characters
DefaultChannels == 1
DefaultRate == 24000
DefaultSampleWidth == 2

\* n as w bytes, least significant first
LittleEndian(n, w) == [i \in 1..w |-> (n \div (256 ^ (i - 1))) % 256]

\* the ASCII codes of the chunk tags RIFF, WAVE, "fmt " and data
TagRIFF == <<82, 73, 70, 70>>
TagWAVE == <<87, 65, 86, 69>>
TagFmt == <<102, 109, 116, 32>>
TagData == <<100, 97, 116, 97>>

\* what wav.Writer emits before the payload: the standard 44-byte header of
\* a PCM container declaring the channel count, the sample rate and the bit
\* depth, with the length fields of a payload of dataLength bytes
wavHeader(channels, sampleRate, bitDepth, dataLength) ==
  TagRIFF \o LittleEndian(36 + dataLength, 4) \o TagWAVE
  \o TagFmt \o LittleEndian(16, 4) \o LittleEndian(1, 2)
  \o LittleEndian(channels, 2) \o LittleEndian(sampleRate, 4)
  \o LittleEndian(sampleRate * channels * (bitDepth \div 8), 4)
  \o LittleEndian(channels * (bitDepth \div 8), 2)
  \o LittleEndian(bitDepth, 2)
  \o TagData \o LittleEndian(dataLength, 4)

Base64Alphabet ==
  <<"A", "B", "C", "D", "E", "F", "G", "H", "I", "J", "K", "L", "M", "N", "O",
    "P", "Q", "R", "S", "T", "U", "V", "W", "X", "Y", "Z", "a", "b", "c", "d",
    "e", "f", "g", "h", "i", "j", "k", "l", "m", "n", "o", "p", "q", "r", "s",
    "t", "u", "v", "w", "x", "y", "z", "0", "1", "2", "3", "4", "5", "6", "7",
    "8", "9", "+", "/">>

\* Buffer.prototype.toString('base64'): three bytes give four characters,
\* a last group of one or two bytes is padded with =
RECURSIVE toStringBase64(_)
toStringBase64(buf) ==
  LET ch(sextet) == Base64Alphabet[sextet + 1]
  IN IF buf = <<>> THEN <<>>
     ELSE IF Len(buf) = 1
     THEN <<ch(buf[1] \div 4), ch((buf[1] % 4) * 16), "=", "=">>
     ELSE IF Len(buf) = 2
     THEN <<ch(buf[1] \div 4), ch((buf[1] % 4) * 16 + buf[2] \div 16),
            ch((buf[2] % 16) * 4), "=">>
     ELSE <<ch(buf[1] \div 4), ch((buf[1] % 4) * 16 + buf[2] \div 16),
            ch((buf[2] % 16) * 4 + buf[3] \div 64), ch(buf[3] % 64)>>
          \o toStringBase64(SubSeq(buf, 4, Len(buf)))

toWavMut(pcmData, channels, rate, sampleWidth) ==
  toStringBase64(wavHeader(channels, rate, sampleWidth, Len(pcmData))
                 \o pcmData)

\* the writer is given channels, sampleRate = rate, bitDepth = sampleWidth*8;
\* its data chunks (header, then the payload written) are concatenated and
\* the buffer is turned into base64 when it ends
toWav(pcmData, channels, rate, sampleWidth) ==
  LET bufs == <<wavHeader(channels, rate, sampleWidth * 8, Len(pcmData)),
                pcmData>>
  IN toStringBase64(bufs[1] \o bufs[2])

PcmBytes == {0, 1, 128, 255}

\* toWav(audioBuffer), as generateSpokenAudioFlow calls it
Encode(pcm) ==
  /\ applied = NoApplication
  /\ applied' = [fn |-> "toWav", arg |-> pcm,
                 val |-> toWav(pcm, DefaultChannels, DefaultRate,
                               DefaultSampleWidth)]
  /\ UNCHANGED <<flowVars, others>>

NextWav == \E pcm \in SeqsUpTo(PcmBytes, MaxPcmLen) : Encode(pcm)

SpecWav == InitAlone /\ [][NextWav]_vars

\* ------------------------------------------------------------ two calls
\* Two invocations of transcribeLiveSpeechFlow interleaved on the event
\* loop.  The flow keeps everything it writes in locals of the invocation
\* (mimeType, base64, apiKey, body, lastError, attempt); the module level
\* holds constants only, and process.env is read, never written.

\* the flow up to its first await, as a function of the request and of the
\* process-wide credential
begin(uri, key, envKey) ==
  LET v == validateDataUri(uri)
      apiKey == Coalesce(key, envKey)
      c == [NoFrame EXCEPT !.input = [audioDataUri |-> uri, apiKey |-> key]]
  IN IF ~v.ok
     THEN [c EXCEPT !.pc = "done", !.outcome = malformedInput]
     ELSE IF ~Truthy(apiKey)
     THEN [c EXCEPT !.pc = "done", !.outcome = missingCredential]
     ELSE [c EXCEPT !.request = [key |-> apiKey,
                                 config |-> config(mimeTypeToEncoding(v.mimeType)),
                                 content |-> v.base64],
                    !.attempt = 1, !.calls = 1, !.timer = "armed",
                    !.pc = "awaitFetch"]

\* the end of an iteration in the frame c
settled(c, step) ==
  LET d == [c EXCEPT !.lastError = step.last]
  IN IF step.k = "done"
     THEN [d EXCEPT !.pc = "done", !.outcome = step.outcome]
     ELSE IF loopCondition(c.attempt + 1)
     THEN [d EXCEPT !.attempt = c.attempt + 1, !.pc = "backoff",
                    !.waits = Append(c.waits, backoff(c.attempt + 1))]
     ELSE [d EXCEPT !.attempt = c.attempt + 1, !.pc = "done",
                    !.outcome = fallThrough(step.last)]

\* what the event loop delivers to an invocation
Event(k, uri, key, st, b, m) ==
  [k |-> k, uri |-> uri, key |-> key, st |-> st, b |-> b, m |-> m]
callEvent(uri, key) == Event("call", uri, key, 0, NoBody, <<>>)
backoffEvent == Event("backoff", <<>>, Undefined, 0, NoBody, <<>>)
fetchEvent(st) == Event("fetch", <<>>, Undefined, st, NoBody, <<>>)
rejectEvent(m) == Event("reject", <<>>, Undefined, 0, NoBody, m)
timeoutEvent == Event("timeout", <<>>, Undefined, 0, NoBody, <<>>)
textEvent(b) == Event("text", <<>>, Undefined, 0, b, <<>>)
textRejectEvent(m) == Event("textReject", <<>>, Undefined, 0, NoBody, m)
TwoUris == {<<"data:", "webm", ";base64,", "webm">>, <<"data:", "webm">>}
TwoStatuses == {200, 401}
TwoBodies ==
  {[k |-> "results", text |-> <<>>,
    results |-> <<[k |-> "str", t |-> <<"a">>]>>],
   [k |-> "results", text |-> <<>>, results |-> <<>>]}
TwoEvents ==
  {callEvent(u, <<"key">>) : u \in TwoUris}
  \cup {backoffEvent, timeoutEvent}
  \cup {fetchEvent(st) : st \in TwoStatuses}
  \cup {textEvent(b) : b \in TwoBodies}

\* the suspension point at which the event ev resumes a frame
awaits(ev) ==
  CASE ev.k = "call"    -> "idle"
    [] ev.k = "backoff" -> "backoff"
    [] ev.k = "fetch"   -> "awaitFetch"
    [] ev.k = "reject"  -> "awaitFetch"
    [] ev.k = "timeout" -> "awaitFetch"
    [] ev.k = "text"    -> "awaitText"
    [] ev.k = "textReject" -> "awaitText"

\* the frame c resumed by the event ev
step(c, ev, envKey) ==
  CASE ev.k = "call" -> begin(ev.uri, ev.key, envKey)
    [] ev.k = "backoff" ->
         [c EXCEPT !.calls = c.calls + 1, !.timer = "armed", !.status = 0,
                   !.pc = "awaitFetch"]
    [] ev.k = "fetch" ->
         [c EXCEPT !.status = ev.st, !.timer = "cleared", !.pc = "awaitText"]
    [] ev.k \in {"reject", "textReject"} ->
         settled(c, catchBlock(Err(ev.m), c.attempt))
    [] ev.k = "timeout" ->
         settled([c EXCEPT !.timer = "fired"],
                 catchBlock(Err(AbortMessage), c.attempt))
    [] ev.k = "text" ->
         settled(c, iteration([status |-> c.status, body |-> ev.b],
                              c.attempt, c.lastError))

visibleToMut(i) ==
  [frames[i] EXCEPT !.attempt = frames[1].attempt,
                    !.lastError = frames[1].lastError]

\* the locals invocation i reads and writes: those of its own closure
visibleTo(i) == frames[i]

\* the event loop resumes invocation i with the event ev
Deliver(i, ev) ==
  /\ visibleTo(i).pc = awaits(ev)
  /\ frames' = [frames EXCEPT ![i] = step(visibleTo(i), ev, env)]
  /\ events' = [events EXCEPT ![i] = Append(events[i], ev)]
  /\ UNCHANGED <<flowVars, applied, cardVars>>

NextTwo == \E i \in Invocations, ev \in TwoEvents : Deliver(i, ev)

SpecTwo == InitAlone /\ [][NextTwo]_vars

\* ------------------------------------------------------------ the card
\* VoiceToTextCard.  A chunk is named by the recorder whose dataavailable
\* event carried it.  A recorder goes through the phases
\*   none -> recording -> stopping (stop() called) -> flushed (dataavailable
\*   handled) -> reading (onstop ran, FileReader at work) -> transcribing
\*   (onloadend ran, transcribeLiveSpeech awaited) -> finished
\* Toasts and console output are not modelled; the card stays mounted.
restOfModel == <<flowVars, applied, frames, events>>

\* MediaRecorder.stop() queues one task that fires dataavailable and then
\* stop: between the two handlers nothing else of the card runs
betweenTasks == \A id \in RecorderIds : recorders[id].phase # "flushed"

\* the record button is rendered with disabled={isProcessing}
buttonEnabled == ~isProcessing

\* the recorder a resolved getUserMedia constructs: the next one unused
freshRecorder ==
  CHOOSE id \in RecorderIds :
     /\ recorders[id].phase = "none"
     /\ \A other \in RecorderIds : other < id => recorders[other].phase # "none"

\* a click on the button showing "Start Recording": handleToggleRecording
\* calls handleStartRecording, which runs up to await getUserMedia
ClickStart ==
  /\ betweenTasks
  /\ buttonEnabled
  /\ ~isRecording
  /\ pendingStarts < MaxPending
  /\ shownTranscription' = <<>>
  /\ pendingStarts' = pendingStarts + 1
  /\ UNCHANGED <<isRecording, isProcessing, mediaRecorderRef, audioChunksRef,
                 recorders, restOfModel>>

\* getUserMedia resolves: the rest of the try block of handleStartRecording
GetUserMediaResolve ==
  /\ betweenTasks
  /\ pendingStarts > 0
  /\ \E id \in RecorderIds : recorders[id].phase = "none"
  /\ pendingStarts' = pendingStarts - 1
  /\ mediaRecorderRef' = freshRecorder
  /\ audioChunksRef' = <<>>
  /\ recorders' = [recorders EXCEPT ![freshRecorder] =
                     [@ EXCEPT !.phase = "recording", !.tracks = "live"]]
  /\ isRecording' = TRUE
  /\ UNCHANGED <<isProcessing, shownTranscription, restOfModel>>

\* getUserMedia rejects: the catch block of handleStartRecording
GetUserMediaReject ==
  /\ betweenTasks
  /\ pendingStarts > 0
  /\ pendingStarts' = pendingStarts - 1
  /\ UNCHANGED <<isRecording, isProcessing, shownTranscription,
                 mediaRecorderRef, audioChunksRef, recorders, restOfModel>>

\* a click on the button showing "Stop Recording": handleToggleRecording
\* calls handleStopRecording
ClickStop ==
  /\ betweenTasks
  /\ buttonEnabled
  /\ isRecording
  /\ IF mediaRecorderRef # 0
        /\ recorders[mediaRecorderRef].phase = "recording"
     THEN /\ recorders' = [recorders EXCEPT
                             ![mediaRecorderRef].phase = "stopping"]
          /\ isRecording' = FALSE
     ELSE UNCHANGED <<recorders, isRecording>>
  /\ UNCHANGED <<isProcessing, shownTranscription, mediaRecorderRef,
                 audioChunksRef, pendingStarts, restOfModel>>

\* the dataavailable event of a stopped recorder: ondataavailable pushes the
\* data to audioChunksRef.current when its size is positive
DataAvailable(id, size) ==
  /\ betweenTasks
  /\ recorders[id].phase = "stopping"
  /\ IF size > 0
     THEN /\ audioChunksRef' = Append(audioChunksRef, id)
          /\ recorders' = [recorders EXCEPT ![id] =
                 [@ EXCEPT !.phase = "flushed",
                           !.produced = Append(@, id)]]
     ELSE /\ recorders' = [recorders EXCEPT ![id].phase = "flushed"]
          /\ UNCHANGED audioChunksRef
  /\ UNCHANGED <<isRecording, isProcessing, shownTranscription,
                 mediaRecorderRef, pendingStarts, restOfModel>>

\* the stop event of a recorder: onstop up to reader.readAsDataURL
StopEvent(id) ==
  /\ recorders[id].phase = "flushed"
  /\ isProcessing' = TRUE
  /\ recorders' = [recorders EXCEPT ![id] =
         [@ EXCEPT !.phase = "reading", !.blob = audioChunksRef]]
  /\ UNCHANGED <<isRecording, shownTranscription, mediaRecorderRef,
                 audioChunksRef, pendingStarts, restOfModel>>

\* the loadend event of the reader: onloadend up to await
\* transcribeLiveSpeech
LoadEnd(id) ==
  /\ betweenTasks
  /\ recorders[id].phase = "reading"
  /\ recorders' = [recorders EXCEPT ![id].phase = "transcribing"]
  /\ UNCHANGED <<isRecording, isProcessing, shownTranscription,
                 mediaRecorderRef, audioChunksRef, pendingStarts,
                 restOfModel>>

\* what transcribeLiveSpeech settles with: a transcript, or an error
CardResults == {<<"a">>, <<>>}

\* transcribeLiveSpeech settles: the rest of try, or catch, then finally
TranscribeSettle(id, result) ==
  /\ betweenTasks
  /\ recorders[id].phase = "transcribing"
  /\ IF result # <<>>
     THEN shownTranscription' = result
     ELSE UNCHANGED shownTranscription
  /\ isProcessing' = FALSE
  /\ recorders' = [recorders EXCEPT ![id] =
         [@ EXCEPT !.phase = "finished", !.tracks = "stopped"]]
  /\ UNCHANGED <<isRecording, mediaRecorderRef, audioChunksRef,
                 pendingStarts, restOfModel>>

NextCard ==
  \/ ClickStart
  \/ GetUserMediaResolve
  \/ GetUserMediaReject
  \/ ClickStop
  \/ \E id \in RecorderIds, size \in {0, 1} : DataAvailable(id, size)
  \/ \E id \in RecorderIds : StopEvent(id)
  \/ \E id \in RecorderIds : LoadEnd(id)
  \/ \E id \in RecorderIds, result \in CardResults :
        TranscribeSettle(id, result)

SpecCard == InitAlone /\ [][NextCard]_vars

\* a task that began with the dataavailable handler goes on with the stop
\* handler, the reader reaches loadend, and transcribeLiveSpeech settles (it
\* returns or throws after at most MAX_ATTEMPTS attempts)
SpecCardLive ==
  /\ InitAlone /\ [][NextCard]_vars
  /\ \A id \in RecorderIds :
        /\ WF_vars(StopEvent(id))
        /\ WF_vars(LoadEnd(id))
        /\ WF_vars(\E result \in CardResults : TranscribeSettle(id, result))

\* ------------------------------------------------------------ claims
\* The response of network call number `calls` has been handled (resp is
\* cleared when the next call is issued).
Handled == resp # NoResp
\* ... and it was a response whose body arrived
Answered == Handled /\ resp.body.k # "rejected"

\* The call has failed, right on the attempt of network call `calls`, with
\* the distinguishable non-retriable error.
FailedNonRetriableNow ==
  /\ pc = "done"
  /\ outcome.kind = "NonRetriable"
  /\ attempt = calls
  /\ Len(waits) = calls - 1

\* C1: if the k-th network call returns HTTP 401, 402 or 403, transcribe
\* fails right then with the non-retriable error, with no backoff wait and no
\* further network call.
C1_AuthStatusShortCircuits ==
  (Answered /\ resp.status \in {401, 402, 403}) => FailedNonRetriableNow

\* C2: no delay precedes attempt 1, the delay waited before attempt 2 is
\* 500 ms and the delay waited before attempt 3 is 1000 ms.
C2_BackoffDelays ==
  /\ (calls <= 1 /\ pc # "backoff") => waits = <<>>
  /\ Len(waits) >= 1 => waits[1] = 500
  /\ Len(waits) >= 2 => waits[2] = 1000

\* C3: a response body that is not JSON makes transcribe fail on that
\* attempt; it is not retried.
C3_NonJsonNotRetried ==
  (Answered /\ resp.body.k = "nonjson") =>
     (pc = "done" /\ outcome.kind \notin {"none", "Success", "Exhausted"}
      /\ attempt = calls)

\* The retriable failures the spec lists, as properties of what the network
\* delivered: a non-2xx status other than 401/402/403 with a JSON body, a 2xx
\* with zero result segments, a 2xx whose segments aggregate to an empty
\* text, a timeout or network error.
ServiceFailure ==
  /\ Answered /\ resp.body.k # "nonjson"
  /\ resp.status \notin 200..299
  /\ resp.status \notin {401, 402, 403}
ZeroSegments ==
  /\ Answered /\ resp.body.k # "nonjson"
  /\ resp.status \in 200..299
  /\ (resp.body.k # "results" \/ Len(resp.body.results) = 0)
\* every first-alternative transcript of the segments is white space
BlankSegments ==
  /\ Answered /\ resp.body.k = "results"
  /\ resp.status \in 200..299
  /\ Len(resp.body.results) > 0
  /\ \A i \in 1..Len(resp.body.results) :
        /\ resp.body.results[i].k # "null"
        /\ resp.body.results[i].k = "str" =>
             \A j \in 1..Len(resp.body.results[i].t) :
                resp.body.results[i].t[j] = " "
NetworkFailure == Handled /\ resp.body.k = "rejected"
RetriableFailure ==
  ServiceFailure \/ ZeroSegments \/ BlankSegments \/ NetworkFailure

\* the error the code builds for the failure resp shows
ObservedError ==
  CASE ServiceFailure -> statusError(resp.status, resp.body)
    [] ZeroSegments   -> noResultsError(resp.body)
    [] BlankSegments  -> emptyTranscriptError(resp.body)
    [] OTHER          -> Err(resp.body.text)

\* some word pair of the text is an auth/payment signature, whatever its case
CarriesSignature(text) ==
  \E i \in 1..(Len(text) - 1) :
     \/ text[i] \in {"status", "STATUS"} /\ text[i + 1] \in {"401", "403"}
     \/ /\ text[i] \in {"payment", "Payment"}
        /\ text[i + 1] \in {"required", "Required"}

FailedExhausted ==
  /\ pc = "done"
  /\ outcome.kind = "Exhausted"
  /\ outcome.lastError = ObservedError
  /\ calls = 3
  /\ attempt = 3

\* C4 as stated: whenever the third attempt, like the two before it, ends in
\* a retriable failure, whatever the text of the messages, transcribe fails
\* with TranscriptionExhausted after exactly 3 network calls and carries the
\* third attempt's error as cause.
C4_ExhaustedWhateverText ==
  (calls = 3 /\ RetriableFailure) => FailedExhausted

\* C4 amended: the same, provided the error observed on the third attempt
\* carries no auth/payment signature.
C4_ExhaustedAfterThree ==
  (calls = 3 /\ RetriableFailure /\ ~CarriesSignature(ObservedError.message))
     => FailedExhausted

C4_Witness ==
  /\ calls = 3 /\ FailedExhausted /\ ZeroSegments
  /\ resp.body.k = "results"
  /\ Len(waits) = 2

\* a 2xx response whose segments aggregate to a non-empty transcript: no
\* null element, and some first-alternative transcript has a character that
\* is not white space
SpokenSegments ==
  /\ Answered /\ resp.body.k = "results"
  /\ resp.status \in 200..299
  /\ \A i \in 1..Len(resp.body.results) : resp.body.results[i].k # "null"
  /\ \E i \in 1..Len(resp.body.results) :
        /\ resp.body.results[i].k = "str"
        /\ \E j \in 1..Len(resp.body.results[i].t) :
              resp.body.results[i].t[j] # " "

\* C5: when attempts 1..k-1 ended in retriable failures and attempt k
\* returns 2xx with a non-empty aggregated transcript, transcribe returns
\* that transcript after exactly k network calls (one backoff wait before
\* each call but the first) and surfaces no error.
C5_SuccessAfterRetries ==
  SpokenSegments =>
     /\ pc = "done"
     /\ outcome = success(transcriptionOf(resp.body.results))
     /\ attempt = calls
     /\ Len(waits) = calls - 1

\* success on the third call, the second having failed with status 400
C5_Witness ==
  /\ SpokenSegments /\ outcome.kind = "Success"
  /\ calls = 3
  /\ includes(lastError.message, <<"status", "400">>)

\* C6: at most 3 network calls are ever issued, the attempt counter goes up
\* by one per network call, and no network call is issued once the call has
\* returned or failed.
C6_BoundedAttempts ==
  [][/\ calls' <= 3
     /\ attempt' \in {attempt, attempt + 1}
     /\ calls' # calls => (calls' = calls + 1 /\ attempt' = calls')
     /\ pc = "done" => (calls' = calls /\ pc' = "done")]_vars

C6_Witness == pc = "done" /\ calls = 3 /\ attempt = 3

\* C7: an error of attempt k whose message carries an auth/payment signature
\* ("status 401", "status 403", "payment required", in any case) makes
\* transcribe fail at once with the non-retriable error, with no network
\* call after the k-th.
C7_SignatureShortCircuits ==
  (Handled /\ ~lastError.isNull /\ CarriesSignature(lastError.message)
   /\ outcome.kind # "Success")
     => FailedNonRetriableNow

\* C8: HTTP 401 on the first network call makes transcribe fail with the
\* non-retriable error after exactly one network call.
C8_First401FailsAtOnce ==
  (Answered /\ calls = 1 /\ resp.status = 401) =>
     /\ pc = "done"
     /\ outcome.kind \notin {"none", "Success", "Exhausted", "FallThrough"}
     /\ attempt = 1 /\ waits = <<>>

\* C9: a successful return carries a non-empty transcript, and a 2xx
\* response with zero segments or with a blank aggregate is never a
\* successful return of that attempt.
C9_NeverEmptyOnSuccess ==
  /\ outcome.kind = "Success" =>
        (outcome.transcription # <<>> /\ SpokenSegments)
  /\ (ZeroSegments \/ BlankSegments) => outcome.kind # "Success"

\* a successful return from segments of which one is blank and one is not
C9_Witness ==
  /\ outcome.kind = "Success"
  /\ Len(resp.body.results) = 2
  /\ \E i \in 1..2 : resp.body.results[i] = [k |-> "str", t |-> <<" ">>]

\* the audio field is data:<mediaType>;base64,<payload>, both parts non-empty
\* and of their character sets
WellFormedUri(uri) ==
  \E n \in 1..Len(uri) :
     /\ 1 < n /\ n < Len(uri) - 1
     /\ uri[1] = "data:"
     /\ uri[n + 1] = ";base64,"
     /\ \A j \in 2..n : uri[j] \in MimeChars
     /\ \A j \in (n + 2)..Len(uri) : uri[j] \in Base64Chars

\* C10: a malformed audio field makes transcribe fail with MalformedInput
\* before any network call: no call, no backoff wait, no attempt, and the
\* error is neither TranscriptionExhausted nor the non-retriable error.
C10_MalformedFailsFirst ==
  (pc # "idle" /\ ~WellFormedUri(input.audioDataUri)) =>
     /\ pc = "done"
     /\ outcome = malformedInput
     /\ calls = 0 /\ attempt = 0 /\ waits = <<>>
     /\ timer = "none" /\ resp = NoResp

\* a payload with a character outside the base64 alphabet
C10_Witness ==
  /\ pc = "done"
  /\ input.audioDataUri = <<"data:", "webm", ";base64,", "-">>
  /\ outcome.kind = "MalformedInput"

\* a credential that is not supplied: undefined, or the empty string
Absent(credential) == credential \in {Undefined, <<"">>}

\* the credential C11 expects in the outbound call
ExpectedCredential ==
  IF ~Absent(input.apiKey) THEN input.apiKey ELSE env

\* C11: for every combination of request credential and process-wide
\* credential (absent, empty, non-empty), the credential of the outbound
\* call is the request's when one is supplied and otherwise the process-wide
\* one, and transcribe fails with MissingCredential, making no network call,
\* exactly when both are absent.
C11_MissingExactlyWhenBothAbsent ==
  (pc # "idle" /\ WellFormedUri(input.audioDataUri)) =>
     /\ outcome.kind = "MissingCredential" <=>
           (Absent(input.apiKey) /\ Absent(env))
     /\ outcome.kind = "MissingCredential" => calls = 0
     /\ outcome.kind # "MissingCredential" =>
           (calls >= 1 /\ request.key = ExpectedCredential)

\* the call is suspended at one of the awaits of the source
Suspended == pc \in {"awaitFetch", "awaitText", "backoff"}

\* network call number `calls` was cancelled by the 60 s timer
TimedOut == Handled /\ timer = "fired"

\* C12: a network call that exceeds the 60-second timeout is cancelled,
\* counts as one failed attempt and is retried like a transient failure: a
\* timeout on attempt k < 3 is followed by a backoff wait and attempt k+1,
\* and a timeout on attempt 3 ends the call in TranscriptionExhausted after
\* exactly 3 network calls.
C12_TimeoutCancelledAndRetried ==
  /\ ~overdue
  /\ TimedOut =>
       /\ resp.body = Rejected(AbortMessage)
       /\ lastError = Err(AbortMessage)
       /\ calls < MAX_ATTEMPTS =>
            (pc = "backoff" /\ attempt = calls + 1 /\ Len(waits) = calls)
       /\ calls = MAX_ATTEMPTS =>
            (pc = "done" /\ outcome = exhausted(Err(AbortMessage))
             /\ attempt = MAX_ATTEMPTS)

\* the part of C12 that does not rest on the body read: a fetch cancelled by
\* the timer is retried, and exhausts the attempts on the third call
C12_FetchTimeoutRetried ==
  TimedOut =>
     /\ resp.body = Rejected(AbortMessage)
     /\ calls < MAX_ATTEMPTS =>
          (pc = "backoff" /\ attempt = calls + 1 /\ Len(waits) = calls)
     /\ calls = MAX_ATTEMPTS =>
          (pc = "done" /\ outcome = exhausted(Err(AbortMessage)))

\* C13: whenever a transcribe call is suspended it is in a backoff delay or
\* awaiting the network response with the timeout armed; it never awaits
\* network data (headers or body) with its abort timer already cleared.
C13_SuspendedOnlyUnderTimer ==
  Suspended =>
     \/ pc = "backoff"
     \/ (pc \in {"awaitFetch", "awaitText"} /\ timer = "armed")

\* the outcomes a transcribe call may end in
FinalOutcome ==
  /\ pc = "done"
  /\ outcome.kind \in {"Success", "MalformedInput", "MissingCredential",
                       "NonRetriable", "Exhausted"}

\* C14: provided each network call eventually responds or times out, every
\* transcribe call eventually terminates in exactly one outcome, a
\* successful transcript or one error (MalformedInput, MissingCredential,
\* non-retriable, TranscriptionExhausted): no outcome exists before the end,
\* nothing happens after it, and the end is reached.
C14_TerminatesInOneOutcome ==
  /\ [](pc # "done" => outcome = NoOutcome)
  /\ [][pc # "done"]_vars
  /\ (pc # "idle") ~> FinalOutcome

\* a call that ended on its second attempt, after one backoff wait
C14_Witness ==
  /\ FinalOutcome
  /\ outcome.kind = "NonRetriable"
  /\ calls = 2
  /\ waits = <<backoff(2)>>

\* the first-alternative transcripts of the segments rs[1..n], in that
\* order, with one space between consecutive ones
RECURSIVE JoinedUpTo(_, _)
JoinedUpTo(rs, n) ==
  IF n = 0 THEN <<>>
  ELSE IF rs[n].k # "str" THEN JoinedUpTo(rs, n - 1)
  ELSE IF \A i \in 1..(n - 1) : rs[i].k # "str" THEN rs[n].t
  ELSE JoinedUpTo(rs, n - 1) \o <<" ">> \o rs[n].t

\* y is x without its leading and trailing spaces
IsTrimOf(y, x) ==
  \E i \in 1..(Len(x) + 1), j \in 0..Len(x) :
     /\ y = SubSeq(x, i, j)
     /\ \A h \in 1..Len(x) : (h < i \/ h > j) => x[h] = " "
     /\ y # <<>> => (y[1] # " " /\ y[Len(y)] # " ")

AggregatedOk ==
  /\ applied.fn = "aggregate"
  /\ applied.val.k = "done"
  /\ applied.val.outcome.kind = "Success"

\* C16: on success the transcript is the first alternative's transcript of
\* each result segment, in the order the service returned the segments,
\* joined by single spaces and trimmed (results [a],[b] give "a b");
\* segments with no alternative or a non-string transcript contribute
\* nothing.
C16_TranscriptInOrder ==
  AggregatedOk =>
     /\ IsTrimOf(applied.val.outcome.transcription,
                 JoinedUpTo(applied.arg, Len(applied.arg)))
     /\ applied.arg = <<[k |-> "str", t |-> <<"a">>],
                        [k |-> "str", t |-> <<"b">>]>>
          => applied.val.outcome.transcription = <<"a", " ", "b">>

\* two spoken segments around one without a string transcript
C16_Witness ==
  /\ AggregatedOk
  /\ applied.arg = <<[k |-> "str", t |-> <<" ", "a">>],
                     [k |-> "nonstring", t |-> <<>>],
                     [k |-> "str", t |-> <<"b", " ">>]>>
  /\ applied.val.outcome.transcription = <<"a", " ", "b">>

\* the ordered table of C17: key, the spellings of the key that differ in
\* letter case only, and codec
CodecTable ==
  <<[key |-> "webm", spellings |-> {"webm", "WebM"}, codec |-> "WEBM_OPUS"],
    [key |-> "wav",  spellings |-> {"wav", "WAV"},   codec |-> "WAV"],
    [key |-> "mp3",  spellings |-> {"mp3", "Mp3"},   codec |-> "MP3"],
    [key |-> "flac", spellings |-> {"flac", "FLAC"}, codec |-> "FLAC"],
    [key |-> "amr",  spellings |-> {"amr", "Amr"},   codec |-> "AMR"],
    [key |-> "ogg",  spellings |-> {"ogg", "OGG"},   codec |-> "OGG_OPUS"]>>

\* entry n of the table occurs in the media type m, whatever the letter case
Occurs(n, m) == \E i \in 1..Len(m) : m[i] \in CodecTable[n].spellings

Inferred == applied.fn = "mimeTypeToEncoding"

\* C17: codec inference returns the codec of the first entry of the ordered
\* table webm, wav, mp3, flac, amr, ogg whose key is a case-insensitive
\* substring of the media type, and unset when none is; the request's
\* encoding field is present exactly when the result is not unset.
C17_FirstTableMatch ==
  Inferred =>
     /\ \A n \in 1..Len(CodecTable) :
          (Occurs(n, applied.arg) /\ \A h \in 1..(n - 1) : ~Occurs(h, applied.arg))
             => applied.val.encoding = CodecTable[n].codec
     /\ (\A n \in 1..Len(CodecTable) : ~Occurs(n, applied.arg))
             => applied.val.encoding = "null"
     /\ "encoding" \in DOMAIN applied.val.config
             <=> applied.val.encoding # "null"
     /\ "encoding" \in DOMAIN applied.val.config
             => applied.val.config.encoding = applied.val.encoding

\* a media type naming wav before webm, in capitals: the table order wins
C17_Witness ==
  /\ Inferred
  /\ applied.arg = <<"audio/", "WAV", "WebM">>
  /\ applied.val.encoding = "WEBM_OPUS"
  /\ applied.val.config.encoding = "WEBM_OPUS"

\* a media type with no table key leaves the encoding field out
C17_UnsetWitness ==
  /\ Inferred
  /\ applied.arg = <<"audio/", "x-">>
  /\ "encoding" \notin DOMAIN applied.val.config

\* the bytes a base64 text stands for: four characters give three bytes,
\* fewer when the group ends in =
RECURSIVE fromBase64(_)
fromBase64(text) ==
  LET sextet(c) == (CHOOSE i \in 1..64 : Base64Alphabet[i] = c) - 1
      s1 == sextet(text[1])
      s2 == sextet(text[2])
      s3 == sextet(text[3])
      s4 == sextet(text[4])
  IN IF Len(text) < 4 THEN <<>>
     ELSE IF text[3] = "=" THEN <<s1 * 4 + s2 \div 16>>
     ELSE IF text[4] = "="
     THEN <<s1 * 4 + s2 \div 16, (s2 % 16) * 16 + s3 \div 4>>
     ELSE <<s1 * 4 + s2 \div 16, (s2 % 16) * 16 + s3 \div 4,
            (s3 % 4) * 64 + s4>>
          \o fromBase64(SubSeq(text, 5, Len(text)))

\* the number that the bytes b[from..from+w-1] spell, least significant first
RECURSIVE ReadLE(_, _, _)
ReadLE(b, from, w) ==
  IF w = 0 THEN 0 ELSE b[from] + 256 * ReadLE(b, from + 1, w - 1)

\* a container decoded according to its header: the fields it declares and
\* the bytes of its data chunk
DecodeWav(b) ==
  IF /\ Len(b) >= 44
     /\ SubSeq(b, 1, 4) = <<82, 73, 70, 70>>
     /\ SubSeq(b, 9, 12) = <<87, 65, 86, 69>>
     /\ SubSeq(b, 13, 16) = <<102, 109, 116, 32>>
     /\ SubSeq(b, 37, 40) = <<100, 97, 116, 97>>
     /\ ReadLE(b, 5, 4) = Len(b) - 8
     /\ ReadLE(b, 17, 4) = 16
     /\ ReadLE(b, 21, 2) = 1
     /\ Len(b) >= 44 + ReadLE(b, 41, 4)
  THEN [ok |-> TRUE,
        channels |-> ReadLE(b, 23, 2),
        sampleRate |-> ReadLE(b, 25, 4),
        bitDepth |-> ReadLE(b, 35, 2),
        pcm |-> SubSeq(b, 45, 44 + ReadLE(b, 41, 4))]
  ELSE [ok |-> FALSE, channels |-> 0, sampleRate |-> 0, bitDepth |-> 0,
        pcm |-> <<>>]

Encoded == applied.fn = "toWav"

NoCredentialAvailable == ~Truthy(Coalesce(input.apiKey, env))

\* C19: a request with both a malformed audio field and no credential
\* available is reported as MalformedInput, not MissingCredential: the data
\* URI is validated before the credential is resolved.
C19_MalformedBeforeCredential ==
  (pc # "idle" /\ ~WellFormedUri(input.audioDataUri) /\ NoCredentialAvailable)
     => (pc = "done" /\ outcome = malformedInput /\ calls = 0)

\* a malformed URI in a process with no credential at all
C19_Witness ==
  /\ pc = "done"
  /\ input.audioDataUri = <<"data:", ";base64,">>
  /\ input.apiKey = Undefined
  /\ env = Undefined
  /\ outcome.kind = "MalformedInput"

\* C20: the failure after the retry loop ("Transcription failed. Last
\* error: ...") is unreachable: every iteration with attempt = 3 leaves the
\* loop by a return or a throw, so the loop never exits by its condition
\* becoming false.
C20_FallThroughUnreachable ==
  /\ outcome.kind # "FallThrough"
  /\ attempt <= MAX_ATTEMPTS
  /\ (attempt = MAX_ATTEMPTS /\ calls = MAX_ATTEMPTS /\ Handled) =>
        (pc = "done"
         /\ outcome.kind \in {"Success", "NonRetriable", "Exhausted"})

\* the third iteration has ended on a body that is not JSON
C20_Witness ==
  /\ pc = "done"
  /\ attempt = MAX_ATTEMPTS
  /\ Answered
  /\ resp.body.k = "nonjson"
  /\ outcome.kind = "Exhausted"

\* The frame functions and the actions of the single call are two
\* renderings of the same code: every step of the single call is the step
\* function applied to the call's locals.
TheFrame ==
  [pc |-> pc, input |-> input, request |-> request, attempt |-> attempt,
   calls |-> calls, waits |-> waits, lastError |-> lastError,
   status |-> status, timer |-> timer, outcome |-> outcome]
FlowEvents ==
  {callEvent(u, k) : u \in Uris, k \in Keys}
  \cup {backoffEvent, timeoutEvent}
  \cup {fetchEvent(st) : st \in Statuses}
  \cup {rejectEvent(m) : m \in NetworkMessages}
  \cup {textEvent(b) : b \in Bodies}
  \cup {textRejectEvent(m) : m \in NetworkMessages}
FlowStepsAreFrameSteps ==
  [][\/ TheFrame' = TheFrame
     \/ \E ev \in FlowEvents :
          /\ awaits(ev) = pc
          /\ TheFrame' = step(TheFrame, ev, env)]_vars

\* the frame an invocation reaches from its own events alone, delivered in
\* their order to a fresh frame
RECURSIVE Replay(_, _)
Replay(evs, n) ==
  IF n = 0 THEN NoFrame ELSE step(Replay(evs, n - 1), evs[n], env)

\* C15: two transcribe calls running concurrently, their attempts, backoff
\* waits and responses interleaved in any order, are independent: the
\* outcome, the attempt count and the last-error value of each call (and the
\* rest of its state) are those its own input and own response sequence
\* determine.
C15_CallsIndependent ==
  \A i \in Invocations :
     LET own == Replay(events[i], Len(events[i]))
     IN /\ frames[i].outcome = own.outcome
        /\ frames[i].attempt = own.attempt
        /\ frames[i].lastError = own.lastError
        /\ frames[i] = own

\* call 1 waits before its third attempt while call 2 is reading the body
\* of its first response
C15_Witness ==
  /\ frames[1].pc = "backoff" /\ frames[1].attempt = 3
  /\ frames[2].pc = "awaitText" /\ frames[2].attempt = 1
  /\ frames[1].lastError # frames[2].lastError

\* the recorder's stop event has been handled: its audio has been put
\* together for transcription
Submitted(id) ==
  recorders[id].phase \in {"reading", "transcribing", "finished"}

\* C21: for any interleaving of start clicks, stop clicks, dataavailable
\* events and stop events, the audio sent for transcription after a recorder
\* stops consists of exactly the chunks this recorder produced: a recording
\* started before the previous recorder's stop event is handled never
\* empties or mixes the chunk buffer of the recording being submitted.
C21_OwnChunksSubmitted ==
  \A id \in RecorderIds :
     Submitted(id) => recorders[id].blob = recorders[id].produced

\* the second recording is submitted with the chunk of the first in front of
\* its own
C21_MixedSubmission ==
  /\ Submitted(1) /\ Submitted(2)
  /\ recorders[1].blob = <<1>>
  /\ recorders[2].blob = <<1, 2>>

\* the recorder's stop event has set isProcessing and its finally block has
\* not run yet
Processing(id) == recorders[id].phase \in {"reading", "transcribing"}

\* a recorder is constructed and started in this step
RecordingStarts ==
  \E id \in RecorderIds :
     recorders[id].phase = "none" /\ recorders'[id].phase = "recording"

\* the finally block of a recorder's onloadend runs in this step
FinallyRuns(id) == Processing(id) /\ recorders'[id].phase = "finished"

\* C22: every time a recorder's stop event sets isProcessing to true,
\* isProcessing is eventually set back to false and the microphone tracks of
\* that recording are stopped, whether the transcription call succeeds or
\* fails; while isProcessing is true no new recording can be started.
C22_ProcessingEndsAndBlocksStart ==
  /\ \A id \in RecorderIds :
        Processing(id) ~>
           (recorders[id].phase = "finished"
            /\ recorders[id].tracks = "stopped")
  /\ [][\A id \in RecorderIds :
           FinallyRuns(id) =>
              (~isProcessing' /\ recorders'[id].tracks = "stopped")]_vars
  /\ [][isProcessing => ~RecordingStarts]_vars

\* the part of C22 about the end of processing, on its own
C22_ProcessingEnds ==
  /\ \A id \in RecorderIds :
        Processing(id) ~>
           (recorders[id].phase = "finished"
            /\ recorders[id].tracks = "stopped")
  /\ [][\A id \in RecorderIds :
           FinallyRuns(id) =>
              (~isProcessing' /\ recorders'[id].tracks = "stopped")]_vars

\* while isProcessing is true the button takes no click
C22_NoClickWhileProcessing ==
  [][isProcessing =>
       (pendingStarts' <= pendingStarts /\ (isRecording => isRecording'))]_vars

====
